---- MODULE Spec2Model ----
(***************************************************************************)
(* HireLink job-board backend: the bearer-token gate (verifyToken), job    *)
(* creation, the time-windowed job queries, registration and login, as     *)
(* implemented by the four near-identical server variants of the           *)
(* repository.                                                             *)
(*                                                                         *)
(* Strings are sequences of one-character strings, so that startsWith and  *)
(* split are computed as JavaScript computes them.  Time is counted in     *)
(* seconds: Date.now() and the code's millisecond constants, divided by    *)
(* 1000 (30 days of milliseconds exceed the checker's integers).           *)
(***************************************************************************)
EXTENDS Integers, Sequences, FiniteSets, TLC

VARIABLES
    variant,   \* which server variant is deployed
    now,       \* the value Date.now() returns
    jobs,      \* the jobs collection, in insertion order
    users,     \* the users collection
    nextId,    \* the next fresh document id
    req        \* the in-flight / last request of each connection

vars == <<variant, now, jobs, users, nextId, req>>

----------------------------------------------------------------------------
(* Bounds *)

\* number of Job documents ever constructed
MaxJobs == 2

\* number of User documents ever stored
MaxUsers == 2

----------------------------------------------------------------------------
(* Deployed variants *)

V_INDEX == "src/index.js"
V_API_A == "src/api/index.js#1"
V_API_B == "src/api/index.js#2"
V_PART0 == "src/unnamed/part_000"

Variants == {V_INDEX, V_API_A, V_API_B, V_PART0}

\* concurrent connections (one request in flight on each)
Conns == {"c1", "c2"}

----------------------------------------------------------------------------
(* JavaScript values and string primitives *)

\* the value `undefined` (an absent header or body field)
Undefined == <<"undefined">>

Str_Bearer == <<"B", "e", "a", "r", "e", "r", " ">>

\* !v for a string-or-undefined value
Falsy(v) == v = Undefined \/ v = <<>>

\* String.prototype.startsWith
StartsWith(s, p) == Len(s) >= Len(p) /\ SubSeq(s, 1, Len(p)) = p

\* index of the first occurrence of the character sep in s, 0 if none
IndexOf(s, sep) ==
    IF \E i \in 1..Len(s) : s[i] = sep
    THEN CHOOSE i \in 1..Len(s) : s[i] = sep /\ \A j \in 1..(i - 1) : s[j] # sep
    ELSE 0

RECURSIVE Split(_, _)
\* String.prototype.split with a one-character separator
Split(s, sep) ==
    LET i == IndexOf(s, sep) IN
    IF i = 0 THEN <<s>>
    ELSE <<SubSeq(s, 1, i - 1)>> \o Split(SubSeq(s, i + 1, Len(s)), sep)

\* arr[k] with JavaScript's 0-based index; undefined past the end
At(arr, k) == IF k + 1 <= Len(arr) THEN arr[k + 1] ELSE Undefined

\* const token = authHeader.split(" ")[1];
ExtractToken(authHeader) == At(Split(authHeader, " "), 1)

\* the gate with only the presence check
HeaderRejected_NoPrefixCheck(authHeader) == Falsy(authHeader)

\* !authHeader || !authHeader.startsWith("Bearer ")
HeaderRejected(authHeader) ==
    Falsy(authHeader) \/ ~StartsWith(authHeader, Str_Bearer)

----------------------------------------------------------------------------
(* axios *)

\* what the identity service (or the network) does with one call
NoCall == [kind |-> "none", status |-> 0]
NetworkError == [kind |-> "neterr", status |-> 0]
Responded(s) == [kind |-> "response", status |-> s]

\* axios' default validateStatus: the promise resolves for 2xx only
ValidateStatus(status) == status >= 200 /\ status < 300

\* await axios.get(...) throws on a transport error or a non-2xx status
AxiosThrows(outcome) ==
    outcome.kind = "neterr" \/ ~ValidateStatus(outcome.status)

\* the status check accepting every 2xx
StatusRejected_Any2xx(status) == status >= 300

\* if (response.status !== 200)
StatusRejected(status) == status # 200

----------------------------------------------------------------------------
(* Responses *)

NoResponse == [status |-> 0, message |-> "", payload |-> "none", list |-> <<>>]

Json(st, msg) == [status |-> st, message |-> msg, payload |-> "none", list |-> <<>>]

JsonWith(st, msg, what, docs) ==
    [status |-> st, message |-> msg, payload |-> what, list |-> docs]

\* message of verifyToken's catch block
CatchMessage(v) ==
    IF v = V_API_B THEN "Invalid or check expired token"
    ELSE "Invalid or expired token"

----------------------------------------------------------------------------
(* Requests *)

NoBody == [title |-> Undefined, description |-> Undefined, link |-> Undefined,
           email |-> Undefined, password |-> Undefined]

NoDoc == [id |-> 0, title |-> <<>>, description |-> <<>>, link |-> <<>>, postedAt |-> 0]

Idle ==
    [kind |-> "idle", pc |-> "idle", authorization |-> Undefined, body |-> NoBody,
     token |-> Undefined, upstream |-> NoCall, verifyCalled |-> FALSE,
     nextCalled |-> FALSE, user |-> FALSE, doc |-> NoDoc, at |-> 0,
     seen |-> 0, storeOk |-> TRUE, res |-> NoResponse]

\* a connection can carry a new request once the previous one was answered
Free(c) == req[c].pc \in {"idle", "done"}

Init ==
    /\ variant \in Variants
    /\ now = 0
    /\ jobs = <<>>
    /\ users = <<>>
    /\ nextId = 1
    /\ req = [c \in Conns |-> Idle]

----------------------------------------------------------------------------
(* POST /add-job: verifyToken, then the handler *)

MsgJobAdded(v) ==
    IF v = V_API_B THEN "Job added successfully" ELSE "Job added successfully!"

\* the field check without the description
MissingFields_NoDescription(b) == Falsy(b.title) \/ Falsy(b.link)

\* if (!title || !description || !link)
MissingFields(b) == Falsy(b.title) \/ Falsy(b.description) \/ Falsy(b.link)

\* new Job({ title, description, link }): postedAt defaults to Date.now()
NewJob(id, b, t) ==
    [id |-> id, title |-> b.title, description |-> b.description,
     link |-> b.link, postedAt |-> t]

\* verifyToken up to its first await: the header check, the token and the
\* call to the identity service
VerifyTokenStart(r, h, b) ==
    IF HeaderRejected(h)
    THEN [r EXCEPT !.kind = "add-job", !.pc = "done", !.authorization = h,
                   !.body = b, !.res = Json(401, "Token missing or invalid")]
    ELSE [r EXCEPT !.kind = "add-job", !.pc = "verifying", !.authorization = h,
                   !.body = b, !.token = ExtractToken(h), !.verifyCalled = TRUE]

\* a POST /add-job request arrives on connection c
AddJobRequest(c, h, b) ==
    /\ Free(c)
    /\ req' = [req EXCEPT ![c] = VerifyTokenStart(Idle, h, b)]
    /\ UNCHANGED <<variant, now, jobs, users, nextId>>

\* the handler behind verifyToken, up to its await newJob.save()
AddJobHandler(r, id, t) ==
    IF MissingFields(r.body)
    THEN [r EXCEPT !.pc = "done", !.res = Json(400, "Missing required fields")]
    ELSE [r EXCEPT !.pc = "saving", !.doc = NewJob(id, r.body, t)]

\* verifyToken after axios.get settles with `outcome`
VerifyTokenResume(r, outcome, v, id, t) ==
    LET r1 == [r EXCEPT !.upstream = outcome] IN
    IF AxiosThrows(outcome)
    THEN [r1 EXCEPT !.pc = "done", !.res = Json(401, CatchMessage(v))]
    ELSE IF StatusRejected(outcome.status)
    THEN [r1 EXCEPT !.pc = "done", !.res = Json(401, "Invalid token")]
    ELSE AddJobHandler([r1 EXCEPT !.user = TRUE, !.nextCalled = TRUE], id, t)

\* the identity service answers (or the call fails) for connection c
VerifyReturns(c, outcome) ==
    /\ req[c].pc = "verifying"
    /\ LET r == VerifyTokenResume(req[c], outcome, variant, nextId, now) IN
         /\ r.pc = "saving" => nextId <= MaxJobs
         /\ req' = [req EXCEPT ![c] = r]
         /\ nextId' = IF r.pc = "saving" THEN nextId + 1 ELSE nextId
    /\ UNCHANGED <<variant, now, jobs, users>>

\* a save that overwrites the newest stored document
Insert_Overwrite(coll, doc) ==
    IF Len(coll) = 0 THEN <<doc>> ELSE [coll EXCEPT ![Len(coll)] = doc]

\* newJob.save() of a new document: one insert, nothing else touched
Insert(coll, doc) == Append(coll, doc)

\* await newJob.save() settles: stored, or the store failed
SaveReturns(c, ok) ==
    /\ req[c].pc = "saving"
    /\ IF ok
       THEN /\ jobs' = Insert(jobs, req[c].doc)
            /\ req' = [req EXCEPT ![c].pc = "done",
                          ![c].res = JsonWith(201, MsgJobAdded(variant), "job",
                                              <<req[c].doc>>)]
       ELSE /\ jobs' = jobs
            /\ req' = [req EXCEPT ![c].pc = "done", ![c].storeOk = FALSE,
                          ![c].res = JsonWith(500, "Error adding job", "error", <<>>)]
    /\ UNCHANGED <<variant, now, users, nextId>>

----------------------------------------------------------------------------
(* GET /latest-jobs and GET /all-jobs *)

\* 24 * 60 * 60 * 1000 ms and 30 * 24 * 60 * 60 * 1000 ms, in seconds
MS_24H == 24 * 60 * 60
MS_30D == 30 * 24 * 60 * 60

\* the instants the clock is observed at
Instants == {0, 1, MS_24H, MS_24H + 1, MS_30D + 1}

\* time passes
Tick(t) ==
    /\ t > now
    /\ now' = t
    /\ UNCHANGED <<variant, jobs, users, nextId, req>>

\* the window with an exclusive lower bound ($gt)
Gte_Exclusive(doc, cutoff) == doc.postedAt > cutoff

\* { postedAt: { $gte: cutoff } }
Gte(doc, cutoff) == doc.postedAt >= cutoff

\* the orders a cursor can deliver the documents at positions S of coll in
Orderings(coll, S) ==
    LET n == Cardinality(S) IN
    { [i \in 1..n |-> coll[f[i]]] :
        f \in { g \in [1..n -> S] : \A i, j \in 1..n : i # j => g[i] # g[j] } }

\* the query without its sort
SortedDesc_Unsorted(out) == TRUE

\* the query sorted oldest first ({ postedAt: 1 })
SortedDesc_Ascending(out) ==
    \A i, j \in 1..Len(out) : i < j => out[i].postedAt <= out[j].postedAt

\* .sort({ postedAt: -1 }): most recent first
SortedDesc(out) ==
    \A i, j \in 1..Len(out) : i < j => out[i].postedAt >= out[j].postedAt

\* Job.find({ postedAt: { $gte: cutoff } }).sort({ postedAt: -1 }); documents
\* with equal postedAt come in an order the store chooses
FindSince(coll, cutoff) ==
    { out \in Orderings(coll, { i \in 1..Len(coll) : Gte(coll[i], cutoff) }) :
        SortedDesc(out) }

\* Job.find(): every document, in the store's native order
FindAll(coll) == Orderings(coll, 1..Len(coll))

\* every variant applying the 30-day cutoff
AllJobsFiltered_Everywhere(v) == TRUE

\* whether this variant's /all-jobs applies the 30-day cutoff
AllJobsFiltered(v) == v = V_API_B

\* new Date(Date.now() - 24 * 60 * 60 * 1000)
TwentyFourHoursAgo(t) == t - MS_24H

\* new Date(Date.now() - 30 * 24 * 60 * 60 * 1000)
ThirtyDaysAgo(t) == t - MS_30D

\* GET /latest-jobs up to its await; `at` is the value Date.now() returned
LatestJobsRequest(c) ==
    /\ Free(c)
    /\ req' = [req EXCEPT ![c] = [Idle EXCEPT !.kind = "latest-jobs", !.pc = "finding",
                                              !.at = now]]
    /\ UNCHANGED <<variant, now, jobs, users, nextId>>

\* GET /all-jobs up to its await
AllJobsRequest(c) ==
    /\ Free(c)
    /\ req' = [req EXCEPT ![c] = [Idle EXCEPT !.kind = "all-jobs", !.pc = "finding",
                                              !.at = now]]
    /\ UNCHANGED <<variant, now, jobs, users, nextId>>

\* the results the pending query of r can get from the collection
QueryResults(r, coll, v) ==
    IF r.kind = "latest-jobs" THEN FindSince(coll, TwentyFourHoursAgo(r.at))
    ELSE IF AllJobsFiltered(v) THEN FindSince(coll, ThirtyDaysAgo(r.at))
    ELSE FindAll(coll)

MsgFindError(r) ==
    IF r.kind = "latest-jobs" THEN "Error fetching latest jobs" ELSE "Error fetching jobs"

\* the store answers the pending query of connection c, or fails
FindReturns(c, ok) ==
    /\ req[c].pc = "finding"
    /\ IF ok
       THEN \E out \in QueryResults(req[c], jobs, variant) :
              req' = [req EXCEPT ![c].pc = "done", ![c].seen = Len(jobs),
                                 ![c].res = JsonWith(200, "", "jobs", out)]
       ELSE req' = [req EXCEPT ![c].pc = "done", ![c].seen = Len(jobs),
                               ![c].storeOk = FALSE,
                               ![c].res = JsonWith(500, MsgFindError(req[c]), "error", <<>>)]
    /\ UNCHANGED <<variant, now, jobs, users, nextId>>

----------------------------------------------------------------------------
(* POST /register and POST /login *)

\* bcrypt.hash(password, 10): a one-way hash, never the plaintext
Hash(pw) == <<"$2a$10$">> \o pw

\* bcrypt.compare(password, hash)
Compare(pw, hash) == Hash(pw) = hash

\* bcryptjs rejects when an argument is not a string
BcryptThrows(pw) == pw = Undefined

\* the unique index on email rejects a second document with the same email
DuplicateEmail(coll, email) == \E i \in 1..Len(coll) : coll[i].email = email

\* User.findOne({ email }): the position of the account, 0 if none
FindOne(coll, email) ==
    IF DuplicateEmail(coll, email)
    THEN CHOOSE i \in 1..Len(coll) : coll[i].email = email
    ELSE 0

\* whether `jwt` is bound in this variant: none of them requires jsonwebtoken,
\* and only the second variant of src/api/index.js does not use it
UsesJwt(v) == v # V_API_B
JwtDefined(v) == FALSE

\* POST /register
Register(c, b, ok) ==
    /\ Free(c)
    /\ LET r == [Idle EXCEPT !.kind = "register", !.pc = "done", !.body = b] IN
       IF BcryptThrows(b.password) \/ ~ok \/ DuplicateEmail(users, b.email)
       THEN /\ users' = users
            /\ req' = [req EXCEPT ![c] =
                         [r EXCEPT !.storeOk = ok, !.res = JsonWith(500, "Error registering user", "error", <<>>)]]
       ELSE /\ Len(users) < MaxUsers
            /\ users' = Append(users, [email |-> b.email, password |-> Hash(b.password)])
            /\ req' = [req EXCEPT ![c] =
                         [r EXCEPT !.res = Json(201, "User registered successfully!")]]
    /\ UNCHANGED <<variant, now, jobs, nextId>>

\* the response of POST /login; ok: the store answered findOne
LoginResponse(coll, b, ok, v) ==
    LET i == FindOne(coll, b.email) IN
    IF ~ok THEN JsonWith(500, "Error during login", "error", <<>>)
    ELSE IF i = 0 THEN Json(400, "User not found")
    ELSE IF BcryptThrows(b.password) THEN JsonWith(500, "Error during login", "error", <<>>)
    ELSE IF ~Compare(b.password, coll[i].password) THEN Json(400, "Invalid credentials")
    ELSE IF UsesJwt(v) /\ ~JwtDefined(v)
    THEN JsonWith(500, "Error during login", "error", <<>>)
    ELSE IF UsesJwt(v) THEN JsonWith(200, "Login successful", "token", <<>>)
    ELSE JsonWith(200, "Login successful", "user", <<>>)

\* POST /login
Login(c, b, ok) ==
    /\ Free(c)
    /\ req' = [req EXCEPT ![c] =
                 [Idle EXCEPT !.kind = "login", !.pc = "done", !.body = b,
                              !.storeOk = ok, !.seen = Len(users),
                              !.res = LoginResponse(users, b, ok, variant)]]
    /\ UNCHANGED <<variant, now, jobs, users, nextId>>

----------------------------------------------------------------------------
(* Inputs *)

\* Authorization header values: absent, empty, other schemes, wrong case, the
\* scheme without its space, and a well-formed bearer credential
Headers ==
    { Undefined, <<>>,
      <<"B", "a", "s", "i", "c", " ", "a">>,
      <<"b", "e", "a", "r", "e", "r", " ", "a">>,
      <<"B", "e", "a", "r", "e", "r">>,
      Str_Bearer \o <<"a">> }

GoodHeader == Str_Bearer \o <<"a">>

JobBody(t, d, l) == [NoBody EXCEPT !.title = t, !.description = d, !.link = l]

GoodBody == JobBody(<<"t">>, <<"d">>, <<"l">>)

Bodies ==
    { GoodBody,
      JobBody(<<"t">>, <<>>, <<"l">>),
      JobBody(Undefined, <<"d">>, <<"l">>),
      JobBody(<<"t">>, <<"d">>, Undefined) }

\* what the identity service can do with a call
Outcomes ==
    { NetworkError, Responded(200), Responded(204), Responded(401), Responded(500) }

----------------------------------------------------------------------------
(* The add-job pipeline under concurrent requests *)

NextAddJob ==
    \E c \in Conns :
        \/ \E h \in Headers, b \in Bodies : AddJobRequest(c, h, b)
        \/ \E o \in Outcomes : VerifyReturns(c, o)
        \/ \E ok \in BOOLEAN : SaveReturns(c, ok)

SpecAddJob == Init /\ [][NextAddJob]_vars

----------------------------------------------------------------------------
(* The job queries, over postings created by verified requests as time passes *)

\* the connections that post jobs while every connection queries
Writers == {"c1"}

NextJobs ==
    \/ \E t \in Instants : Tick(t)
    \/ \E c \in Conns :
        \/ c \in Writers /\ AddJobRequest(c, GoodHeader, GoodBody)
        \/ VerifyReturns(c, Responded(200))
        \/ SaveReturns(c, TRUE)
        \/ LatestJobsRequest(c)
        \/ AllJobsRequest(c)
        \/ \E ok \in BOOLEAN : FindReturns(c, ok)

SpecJobs == Init /\ [][NextJobs]_vars

----------------------------------------------------------------------------
(* Registration and login *)

Emails == { <<"a">>, <<"b">> }

Passwords == { Undefined, <<"p">>, <<"q">> }

Credentials(e, pw) == [NoBody EXCEPT !.email = e, !.password = pw]

NextAccounts ==
    \E c \in Conns, e \in Emails, pw \in Passwords, ok \in BOOLEAN :
        \/ Register(c, Credentials(e, pw), ok)
        \/ Login(c, Credentials(e, pw), ok)

SpecAccounts == Init /\ [][NextAccounts]_vars

----------------------------------------------------------------------------
(* Properties of the add-job pipeline *)

\* the header is absent, or does not begin with the seven characters "Bearer "
LacksBearerPrefix(h) ==
    \/ h = Undefined
    \/ Len(h) < 7
    \/ \E i \in 1..7 : h[i] # Str_Bearer[i]

\* a body field that is missing or the empty string
MissingOrEmpty(x) == x = Undefined \/ Len(x) = 0

\* C1: a POST /add-job whose Authorization header is absent or does not start
\* with "Bearer " is answered 401 "Token missing or invalid"; the identity
\* service is never called for it, next() is not called and no Job is built.
C1_MalformedHeaderRejected ==
    \A c \in Conns :
        (req[c].kind = "add-job" /\ LacksBearerPrefix(req[c].authorization)) =>
            /\ req[c].pc = "done"
            /\ req[c].res = Json(401, "Token missing or invalid")
            /\ ~req[c].verifyCalled
            /\ req[c].upstream = NoCall
            /\ ~req[c].nextCalled
            /\ req[c].doc = NoDoc

\* a request with a header of another scheme was turned away at the gate
C1_Witness ==
    \E c \in Conns :
        /\ req[c].kind = "add-job"
        /\ req[c].authorization # Undefined
        /\ Len(req[c].authorization) > 0
        /\ LacksBearerPrefix(req[c].authorization)
        /\ req[c].res.status = 401

\* C2: the job collection changes only by one document appended by a request
\* whose identity call had answered 200 before; a request whose identity call
\* answers anything else (or fails) is answered 401 at that step, with the
\* collection unchanged and no Job built.
C2_JobsOnlyAfterVerification ==
    [][ /\ jobs' # jobs =>
            \E c \in Conns :
                /\ req[c].kind = "add-job" /\ req[c].pc = "saving"
                /\ req[c].verifyCalled
                /\ req[c].upstream = Responded(200)
                /\ jobs' = Append(jobs, req[c].doc)
                /\ req'[c].res.status = 201
        /\ \A c \in Conns :
            (/\ req[c].pc = "verifying"
             /\ req'[c].pc # "verifying"
             /\ req'[c].upstream # Responded(200)) =>
                /\ req'[c].pc = "done"
                /\ req'[c].res.status = 401
                /\ req'[c].doc = NoDoc
                /\ ~req'[c].nextCalled
                /\ jobs' = jobs
      ]_vars

\* one request was verified and stored its job while another, whose token the
\* identity service answered 401 for, was turned away
C2_Witness ==
    \E c, d \in Conns :
        /\ req[c].res.status = 201
        /\ req[c].upstream = Responded(200)
        /\ Len(jobs) = 1 /\ jobs[1] = req[c].doc
        /\ req[d].upstream = Responded(401)
        /\ req[d].res.status = 401

\* C3: a POST /add-job that passed verifyToken with title, description or link
\* missing or empty is answered 400 "Missing required fields", and no Job is
\* built or saved.
C3_MissingFieldsRejected ==
    \A c \in Conns :
        (/\ req[c].kind = "add-job"
         /\ req[c].nextCalled
         /\ \/ MissingOrEmpty(req[c].body.title)
            \/ MissingOrEmpty(req[c].body.description)
            \/ MissingOrEmpty(req[c].body.link)) =>
            /\ req[c].pc = "done"
            /\ req[c].res = Json(400, "Missing required fields")
            /\ req[c].doc = NoDoc
            /\ \A i \in 1..Len(jobs) : ~MissingOrEmpty(jobs[i].description)

\* a verified request with an empty description was answered 400
C3_Witness ==
    \E c \in Conns :
        /\ req[c].nextCalled
        /\ req[c].upstream = Responded(200)
        /\ req[c].body.description = <<>>
        /\ req[c].res.status = 400

----------------------------------------------------------------------------
(* The token presented to the identity service *)

\* longest remainder after "Bearer " that is tried
MaxTail == 3

RECURSIVE Tails(_)
\* the strings over {a, space} of length at most n
Tails(n) ==
    IF n = 0 THEN { <<>> }
    ELSE LET shorter == Tails(n - 1) IN
         shorter \cup { t \o <<ch>> : t \in shorter, ch \in {"a", " "} }

BearerHeaders == { Str_Bearer \o t : t \in Tails(MaxTail) }

NextToken ==
    \E c \in Conns :
        \/ \E h \in BearerHeaders : AddJobRequest(c, h, GoodBody)
        \/ \E o \in {Responded(200), Responded(401)} : VerifyReturns(c, o)
        \/ SaveReturns(c, TRUE)

SpecToken == Init /\ [][NextToken]_vars

\* C10: for a header starting with "Bearer ", the token presented to the
\* identity service is exactly the rest of the header after that prefix.
C10_TokenIsRemainder ==
    \A c \in Conns :
        (req[c].kind = "add-job" /\ req[c].verifyCalled) =>
            req[c].token = SubSeq(req[c].authorization, 8, Len(req[c].authorization))

\* C9: an identity-service response with a non-success status takes the
\* "Invalid token" branch; the catch block's message is for a failed call;
\* either way the answer is 401 and next() is not called.
C9_FailureModesDistinguished ==
    \A c \in Conns :
        (/\ req[c].kind = "add-job"
         /\ req[c].upstream.kind = "response"
         /\ req[c].upstream.status # 200) =>
            /\ req[c].res = Json(401, "Invalid token")
            /\ ~req[c].nextCalled

----------------------------------------------------------------------------
(* Properties of the job queries *)

\* the postings a response carries
ResultSet(r) == { r.res.list[i] : i \in 1..Len(r.res.list) }

\* the collection as the query of r found it (the collection only grows)
StoredAt(r) == { jobs[i] : i \in 1..r.seen }

\* the postedAt values of a response, in order
PostedAts(r) == [i \in 1..Len(r.res.list) |-> r.res.list[i].postedAt]

Answered(c, kind) ==
    req[c].kind = kind /\ req[c].pc = "done" /\ req[c].res.status = 200

\* C4: GET /latest-jobs at query time `at` returns exactly the stored postings
\* with postedAt >= at - 24h, each once.
C4_LatestWindowExact ==
    \A c \in Conns :
        Answered(c, "latest-jobs") =>
            /\ ResultSet(req[c]) =
                 { j \in StoredAt(req[c]) : j.postedAt >= req[c].at - 24 * 60 * 60 }
            /\ Cardinality(ResultSet(req[c])) = Len(req[c].res.list)

\* a posting exactly 24h old was returned while an older one was left out
C4_Witness ==
    \E c \in Conns :
        /\ Answered(c, "latest-jobs")
        /\ \E j \in ResultSet(req[c]) : j.postedAt = req[c].at - 24 * 60 * 60
        /\ \E j \in StoredAt(req[c]) : j.postedAt < req[c].at - 24 * 60 * 60

\* C5: the postings GET /latest-jobs returns are in descending postedAt order.
C5_LatestDescending ==
    \A c \in Conns :
        Answered(c, "latest-jobs") =>
            \A i, j \in 1..Len(req[c].res.list) :
                i < j => req[c].res.list[i].postedAt >= req[c].res.list[j].postedAt

\* a response with two postings of different age
C5_Witness ==
    \E c \in Conns :
        /\ Answered(c, "latest-jobs")
        /\ Len(req[c].res.list) >= 2
        /\ req[c].res.list[1].postedAt > req[c].res.list[2].postedAt

\* C6 as stated: two GET /latest-jobs calls at most a second apart, with the
\* same collection before them, return identical sequences.
C6_RepeatedQueryIdentical ==
    \A c, d \in Conns :
        (/\ Answered(c, "latest-jobs") /\ Answered(d, "latest-jobs")
         /\ req[c].seen = req[d].seen
         /\ req[c].at <= req[d].at /\ req[d].at - req[c].at <= 1) =>
            req[c].res.list = req[d].res.list

\* C6 amended: two GET /latest-jobs calls over the same collection return the
\* same postings with the same sequence of postedAt values, provided no stored
\* posting lies at or after the earlier call's cutoff and before the later's.
C6_RepeatedQuerySamePostings ==
    \A c, d \in Conns :
        (/\ Answered(c, "latest-jobs") /\ Answered(d, "latest-jobs")
         /\ req[c].seen = req[d].seen
         /\ req[c].at <= req[d].at
         /\ ~\E j \in StoredAt(req[c]) :
               /\ j.postedAt >= req[c].at - 24 * 60 * 60
               /\ j.postedAt < req[d].at - 24 * 60 * 60) =>
            /\ ResultSet(req[c]) = ResultSet(req[d])
            /\ PostedAts(req[c]) = PostedAts(req[d])

\* two calls at different times returned the same two postings of equal age
\* in different orders
C6_Witness ==
    \E c, d \in Conns :
        /\ Answered(c, "latest-jobs") /\ Answered(d, "latest-jobs")
        /\ req[c].seen = req[d].seen
        /\ req[c].at < req[d].at
        /\ Len(req[c].res.list) = 2
        /\ ResultSet(req[c]) = ResultSet(req[d])
        /\ req[c].res.list # req[d].res.list

\* C8 as stated: GET /all-jobs returns every stored posting.
C8_AllJobsUnfiltered ==
    \A c \in Conns :
        Answered(c, "all-jobs") => ResultSet(req[c]) = StoredAt(req[c])

\* C8 amended: GET /all-jobs returns every stored posting, except in the
\* second variant of src/api/index.js, where it returns exactly the postings
\* with postedAt >= at - 30 days.
C8_AllJobsPerVariant ==
    \A c \in Conns :
        Answered(c, "all-jobs") =>
            /\ Cardinality(ResultSet(req[c])) = Len(req[c].res.list)
            /\ ResultSet(req[c]) =
                 IF variant = V_API_B
                 THEN { j \in StoredAt(req[c]) : j.postedAt >= req[c].at - 30 * 24 * 60 * 60 }
                 ELSE StoredAt(req[c])

\* an unfiltered variant returned a posting more than 30 days old
C8_Witness ==
    \E c \in Conns :
        /\ Answered(c, "all-jobs")
        /\ variant # V_API_B
        /\ \E j \in ResultSet(req[c]) : j.postedAt < req[c].at - 30 * 24 * 60 * 60

----------------------------------------------------------------------------
(* Properties of login *)

\* C7: POST /login for an existing account with a password supplied answers
\* 400 "Invalid credentials" when the password does not match the stored hash
\* and 200 with a token or user when it matches, and answers 500 only when
\* the store operation failed.
C7_LoginOutcome ==
    \A c \in Conns :
        (/\ req[c].kind = "login"
         /\ req[c].body.password # Undefined
         /\ \E i \in 1..req[c].seen : users[i].email = req[c].body.email) =>
            LET u == users[CHOOSE i \in 1..req[c].seen : users[i].email = req[c].body.email]
                match == u.password = Hash(req[c].body.password)
            IN /\ (req[c].storeOk /\ ~match) => req[c].res = Json(400, "Invalid credentials")
               /\ (req[c].storeOk /\ match) =>
                    /\ req[c].res.status = 200
                    /\ req[c].res.payload \in {"token", "user"}
               /\ req[c].res.status = 500 => ~req[c].storeOk

----------------------------------------------------------------------------
(* The whole server: every endpoint, on every connection, as time passes *)

Next ==
    \/ Tick(MS_30D + 1)
    \/ \E c \in Conns :
        \/ \E h \in {Undefined, GoodHeader} : AddJobRequest(c, h, GoodBody)
        \/ \E o \in {Responded(200), Responded(401)} : VerifyReturns(c, o)
        \/ \E ok \in BOOLEAN : SaveReturns(c, ok)
        \/ LatestJobsRequest(c)
        \/ AllJobsRequest(c)
        \/ FindReturns(c, TRUE)
        \/ Register(c, Credentials(<<"a">>, <<"p">>), TRUE)
        \/ Login(c, Credentials(<<"a">>, <<"p">>), TRUE)

Spec == Init /\ [][Next]_vars

\* C11: whatever request is served, the job collection either stays as it is
\* or gains exactly one posting at its end, and then only as the save of a
\* POST /add-job answered 201; stored postings are never removed or altered.
C11_JobsAppendOnly ==
    [][ \/ jobs' = jobs
        \/ /\ Len(jobs') = Len(jobs) + 1
           /\ \A i \in 1..Len(jobs) : jobs'[i] = jobs[i]
           /\ \A i \in 1..Len(jobs) : jobs'[i].id # jobs'[Len(jobs')].id
           /\ \E c \in Conns :
                /\ req[c].kind = "add-job" /\ req[c].pc = "saving"
                /\ req'[c].pc = "done" /\ req'[c].res.status = 201
                /\ jobs'[Len(jobs')] = req[c].doc
      ]_vars

\* two postings are stored, and a login, a registration or a query has been
\* answered since
C11_Witness ==
    /\ Len(jobs) = 2
    /\ \E c \in Conns :
        /\ req[c].kind \in {"login", "register", "latest-jobs", "all-jobs"}
        /\ req[c].pc = "done"

====
